---------------------------- MODULE Spec2Model ----------------------------
(***************************************************************************)
(* Model of the network compliance workflow of                             *)
(* plugins/modules/network_compliance_workflow_manager.py: one invocation  *)
(* of main() over one config entry.  The control plane (device inventory,  *)
(* site membership, compliance engine, task subsystem) is the environment: *)
(* every answer it gives is drawn with \E from a bounded set.              *)
(***************************************************************************)
EXTENDS Integers, Sequences, FiniteSets, TLC

(* ----------------------------- universe -------------------------------- *)

\* management IP addresses a playbook can name / the control plane can report
Addrs == {"10.0.0.1", "10.0.0.2"}
\* ip_address_list entries that are not IPv4 addresses
BadAddrs == {"999.1.1.1", "abc"}
\* the dotted-decimal fields of an entry read as numbers, none if it has no
\* such form
Octets(ip) ==
  CASE ip = "10.0.0.1" -> <<10, 0, 0, 1>>
    [] ip = "10.0.0.2" -> <<10, 0, 0, 2>>
    [] ip = "999.1.1.1" -> <<999, 1, 1, 1>>
    [] OTHER -> << >>
\* device instance ids the control plane can report
Uuids == {"D1", "D2"}
\* compliance statuses of a record; anything but the first two is 'OTHER'
Statuses == {"COMPLIANT", "NON_COMPLIANT", "IN_PROGRESS"}

\* category names a playbook can write under run_compliance
CategoryNames ==
  {"INTENT", "intent", "RUNNING_CONFIG", "NETWORK_SETTINGS", "BOGUS"}
\* valid_categories of validate_run_compliance
ValidCategories ==
  {"INTENT", "RUNNING_CONFIG", "IMAGE", "PSIRT", "EOX", "NETWORK_SETTINGS"}
\* category.upper()
Upper(category) == IF category = "intent" THEN "INTENT" ELSE category
\* most categories a drawn run_compliance carries
MaxCategories == 1
\* longest categories list drawn where the categories themselves are studied
MaxRequested == 2
\* the compliance types get_want puts in the place of INTENT
IntentTypes ==
  <<"NETWORK_PROFILE", "APPLICATION_VISIBILITY", "WORKFLOW", "FABRIC",
    "NETWORK_SETTINGS">>

\* longest get_membership device list drawn
MaxMembers == 2
\* longest get_device_list answer drawn for one address
MaxDevices == 2
\* longest get_compliance_detail answer drawn
MaxRecords == 2
\* most subtask entries (after the root entry) of a drawn task tree
MaxItems == 2
\* seconds after which exit_while_loop gives up
Timeout == 360
\* seconds one status round trip may take: none, up to the limit, beyond it
TimeSteps == {0, Timeout, Timeout + 1}

\* fragments a compliance task's free-text progress may contain
Fragments == {"Success", "success", "Failed"}
SuccessMarker == "copy_Running_To_Startup=Success"
FailedMarker == "copy_Running_To_Startup=Failed"
\* A subtask's progress text is the set of "<device id>=...<marker>" pairs
\* written in it.
Texts == SUBSET (Uuids \X {SuccessMarker, FailedMarker})
\* 'device_id in progress' and '<marker> in progress': plain substring tests
Mentions(text, device_id) == \E p \in text : p[1] = device_id
HasMarker(text, marker) == \E p \in text : p[2] = marker

\* an action_map iterated with sync_device_config_params first
ActionOrder_reversed == <<"sync_device_config", "run_compliance">>

\* the action map of get_diff_merged, in dict order
ActionOrder == <<"run_compliance", "sync_device_config">>

(* ----------------------------- helpers --------------------------------- *)

\* all sequences over S of length 0..n
SeqUpTo(S, n) == UNION {[1..k -> S] : k \in 0..n}

Min(S) == CHOOSE x \in S : \A y \in S : x <= y

\* all subsets of S with at most n elements
RECURSIVE SetsUpTo(_, _)
SetsUpTo(S, n) ==
  IF n = 0 THEN {{}}
  ELSE LET smaller == SetsUpTo(S, n - 1)
       IN smaller \cup {A \cup {x} : A \in smaller, x \in S}

\* A dict whose iteration order the code depends on is a sequence of
\* <<key, value>> pairs in insertion order, keys unique.
Keys(m) == {m[i][1] : i \in DOMAIN m}
Values(m) == {m[i][2] : i \in DOMAIN m}
Get(m, k) == m[CHOOSE i \in DOMAIN m : m[i][1] = k][2]
\* m[k] = v
DictSet(m, k, v) ==
  IF k \in Keys(m)
  THEN [i \in DOMAIN m |-> IF m[i][1] = k THEN <<k, v>> ELSE m[i]]
  ELSE Append(m, <<k, v>>)

\* A dict that is only looked up or counted is a function; d[k] = v
Put(d, k, v) == [x \in (DOMAIN d) \cup {k} |-> IF x = k THEN v ELSE d[x]]
EmptyDict == << >>

VARIABLES
  pc,                       \* position of main() / terminal kind
  config,                   \* the validated config entry
  remaining,                \* addresses get_device_ids_from_ip has yet to query
  answers,                  \* per address: what get_device_list answered (history)
  reported,                 \* per address: the ids it reported Reachable (history)
  site_answer,              \* what get_site answered (history)
  membership,               \* what get_membership answered (history)
  site_map,                 \* site_mgmt_ip_instance_id_map: [bound, map]
  ip_map,                   \* iplist_mgmt_ip_instance_id_map
  mgmt_ip_instance_id_map,  \* the TargetSet
  required,                 \* what is_sync_required returned, "unset" before
  compliance_details,       \* translated RUNNING_CONFIG detail of get_want
  compliance_response,      \* the last answer of get_compliance_detail
  want,                     \* which action params get_want filled in
  action,                   \* index into ActionOrder of the action in work
  result_task_id,           \* what the action's dispatcher returned
  elapsed,                  \* time.time() - start_time of the running poller
  response,                 \* last answer of get_task_by_id / get_task_tree
  success_devices,          \* sync poller's success set of the last poll
  failed_devices,           \* sync poller's failed set of the last poll
  status,                   \* self.status
  result,                   \* self.result
  called,                   \* control-plane functions invoked so far
  outcome,                  \* per action: how it ended (history)
  effect                    \* per action: whether it changed device state (history)

vars == <<pc, config, remaining, answers, reported, site_answer, membership, site_map,
          ip_map, mgmt_ip_instance_id_map, required, compliance_details,
          compliance_response, want, action, result_task_id, elapsed, response, success_devices,
          failed_devices, status, result, called, outcome, effect>>

(* ------------------------- pure functions ------------------------------ *)

\* the message of a result: what it says and which devices / details it names
Msg(kind, failed, succeeded, detail) ==
  [kind |-> kind, failed |-> failed, succeeded |-> succeeded, detail |-> detail]
NoMsg == Msg("", {}, {}, FALSE)

\* update_result(status, changed, msg, log_level, data): the new self.result
update_result(res, st, changed, msg, data) ==
  [res EXCEPT !.status = st,
              !.msg = msg,
              !.changed = changed,
              !.failed = IF st = "failed" THEN TRUE ELSE @,
              !.data = IF data # EmptyDict THEN data ELSE @]

\* exit_while_loop with the limit taken in minutes where seconds are compared
exit_while_loop_minutes(el, resp) ==
  IF el > Timeout * 60
  THEN (IF resp.kind = "tree" THEN "AttributeError" ELSE "timeout")
  ELSE "continue"

\* exit_while_loop: "timeout" when the elapsed time exceeds the timeout period.
\* It then reads response.get('data'): a task tree is a list and has no get.
exit_while_loop(el, resp) ==
  IF el > Timeout
  THEN (IF resp.kind = "tree" THEN "AttributeError" ELSE "timeout")
  ELSE "continue"

\* the message exit_while_loop builds; hasData is response.get('data')
TimeoutMsg(hasData) == Msg("timeout", {}, {}, hasData)

\* handle_error's message; hasReason is whether failure_reason was given
ErrorMsg(m, hasReason) == Msg("error", Keys(m), {}, hasReason)

\* a check_return_status that goes on whatever the status is
check_return_status_ignore(st) == "continue"

\* DnacBase.check_return_status on self.status
check_return_status(st) == IF st = "failed" THEN "fail_json" ELSE "continue"

\* the loop assigning a fresh one-record list on every record
RECURSIVE ModifyLoop_overwrite(_, _, _)
ModifyLoop_overwrite(resp, m, acc) ==
  IF resp = << >> THEN [ok |-> TRUE, value |-> acc]
  ELSE LET item == Head(resp)
           hits == {i \in DOMAIN m : m[i][2] = item.deviceUuid}
       IN IF hits = {} THEN [ok |-> FALSE, value |-> EmptyDict]
          ELSE ModifyLoop_overwrite(Tail(resp), m,
                                    Put(acc, m[Min(hits)][1], <<item>>))

modify_compliance_response_overwrite(resp, m) ==
  ModifyLoop_overwrite(resp, m, EmptyDict)

\* the loop with next(..., None): a record of no target device is left out
RECURSIVE ModifyLoop_skip(_, _, _)
ModifyLoop_skip(resp, m, acc) ==
  IF resp = << >> THEN [ok |-> TRUE, value |-> acc]
  ELSE LET item == Head(resp)
           hits == {i \in DOMAIN m : m[i][2] = item.deviceUuid}
       IN IF hits = {} THEN ModifyLoop_skip(Tail(resp), m, acc)
          ELSE LET ip == m[Min(hits)][1]
                   old == IF ip \in DOMAIN acc THEN acc[ip] ELSE << >>
               IN ModifyLoop_skip(Tail(resp), m, Put(acc, ip, Append(old, item)))

modify_compliance_response_skip(resp, m) == ModifyLoop_skip(resp, m, EmptyDict)

\* modify_compliance_response: [ok |-> FALSE] stands for the StopIteration
\* that next() raises when no address maps to the record's deviceUuid
RECURSIVE ModifyLoop(_, _, _)
ModifyLoop(resp, m, acc) ==
  IF resp = << >> THEN [ok |-> TRUE, value |-> acc]
  ELSE LET item == Head(resp)
           hits == {i \in DOMAIN m : m[i][2] = item.deviceUuid}
       IN IF hits = {} THEN [ok |-> FALSE, value |-> EmptyDict]
          ELSE LET ip == m[Min(hits)][1]
                   old == IF ip \in DOMAIN acc THEN acc[ip] ELSE << >>
               IN ModifyLoop(Tail(resp), m, Put(acc, ip, Append(old, item)))

modify_compliance_response(resp, m) == ModifyLoop(resp, m, EmptyDict)

\* is_sync_required without its elif: only 'all compliant' refuses
is_sync_required_no_elif(modified_response, m) ==
  LET compliant == {ip \in DOMAIN modified_response :
                      modified_response[ip][1].status = "COMPLIANT"}
  IN Cardinality(compliant) # Len(m)

\* is_sync_required: the 'required' flag it returns
is_sync_required(modified_response, m) ==
  LET compliant == {ip \in DOMAIN modified_response :
                      modified_response[ip][1].status = "COMPLIANT"}
      non_compliant == {ip \in DOMAIN modified_response :
                          modified_response[ip][1].status = "NON_COMPLIANT"}
  IN IF Cardinality(compliant) = Len(m) THEN FALSE
     ELSE IF Cardinality(non_compliant) # Len(m) THEN FALSE
     ELSE TRUE

\* get_sync_config_task_status: the sets the scan of response[1:] builds
IsSuccess(text, device_id) ==
  Mentions(text, device_id) /\ HasMarker(text, SuccessMarker)
IsFailed(text, device_id) ==
  ~IsSuccess(text, device_id)
  /\ Mentions(text, device_id) /\ HasMarker(text, FailedMarker)
SuccessDevices(items, m) ==
  {m[j][1] : j \in {k \in DOMAIN m : \E text \in items : IsSuccess(text, m[k][2])}}
FailedDevices(items, m) ==
  {m[j][1] : j \in {k \in DOMAIN m : \E text \in items : IsFailed(text, m[k][2])}}

\* the chain reporting success as soon as one device succeeded
SyncVerdict_any_success(succ, fail, n) ==
  IF succ # {} THEN "success"
  ELSE IF Cardinality(fail) = n THEN "all_failed"
  ELSE "poll_again"

\* the chain with the mixed branch reporting like the all-failed one
SyncVerdict_failed_first(succ, fail, n) ==
  IF Cardinality(succ) = n THEN "success"
  ELSE IF fail # {} /\ Cardinality(fail) + Cardinality(succ) = n THEN "all_failed"
  ELSE "poll_again"

\* get_sync_config_task_status: the if/elif chain over the two sets
SyncVerdict(succ, fail, n) ==
  IF Cardinality(succ) = n THEN "success"
  ELSE IF fail # {} /\ Cardinality(succ) < n
          /\ Cardinality(fail) + Cardinality(succ) = n THEN "mixed"
  ELSE IF Cardinality(fail) = n THEN "all_failed"
  ELSE "poll_again"

\* the chain testing the progress text as it is written
Lower_none(f) == IF f = "Failed" THEN "FAILED" ELSE f

\* the chain testing for 'failed' before the error flag and 'success'
ComplianceVerdict_failed_first(resp) ==
  LET lowered == {IF f \in {"Success", "success"} THEN "success" ELSE "failed" :
                    f \in resp.progress}
  IN IF "failed" \in lowered THEN "failed"
     ELSE IF resp.isError THEN "error"
     ELSE IF "success" \in lowered THEN "success"
     ELSE "poll_again"

\* get_compliance_task_status: the if/elif chain over a non-empty response
\* that is within the timeout; progress.lower() maps each fragment
Lower(f) == IF f \in {"Success", "success"} THEN "success" ELSE "failed"
ComplianceVerdict(resp) ==
  LET lowered == {Lower(f) : f \in resp.progress}
  IN IF resp.isError THEN "error"
     ELSE IF ~resp.isError /\ "success" \in lowered THEN "success"
     ELSE IF "failed" \in lowered THEN "failed"
     ELSE "poll_again"

(* --------------------- what the control plane answers ------------------ *)

\* get_membership: the devices of the site, flattened in response order
MemberLists ==
  SeqUpTo([managementIpAddress : Addrs, instanceUuid : Uuids, reachable : BOOLEAN],
          MaxMembers)
\* get_device_list for one address
DeviceLists == SeqUpTo([id : Uuids, reachable : BOOLEAN], MaxDevices)
\* get_compliance_detail
ComplianceResponses == SeqUpTo([deviceUuid : Uuids, status : Statuses], MaxRecords)
\* get_task_by_id, when it answers
TaskStatuses ==
  [kind : {"status"}, isError : BOOLEAN, progress : SUBSET Fragments, data : BOOLEAN]
\* get_task_tree, when it answers: the root entry's error flag and the distinct
\* progress texts of the subtask entries response[1:], whose order the scan
\* does not depend on
TaskTrees ==
  [isError : BOOLEAN,
   items : SetsUpTo(Texts, MaxItems)]
NoResponse == [kind |-> "none", isError |-> FALSE, progress |-> {}, data |-> FALSE]
TreeResponse(t) ==
  [kind |-> "tree", isError |-> t.isError, progress |-> {}, data |-> FALSE]

(* ------------------------------ Init ----------------------------------- *)

NoAnswers == [a \in Addrs |-> "not asked"]
NoReports == [a \in Addrs |-> {}]

\* A config entry. run_compliance is whether the entry has a non-empty
\* run_compliance dict; trigger_full and categories are what that dict holds
\* ("None" and the empty list when the key is absent).
Entry(ips, site, run, trigger_full, categories, sync) ==
  [ip_address_list |-> ips, site_name |-> site, run_compliance |-> run,
   trigger_full |-> trigger_full, categories |-> categories,
   sync_device_config |-> sync]

\* a well-formed run_compliance asks for a full check
WellFormed(ips, site, run, sync) ==
  Entry(ips, site, run, IF run THEN "True" ELSE "None", << >>, sync)

\* the entries whose addresses and run_compliance pass validation
Configs ==
  {WellFormed(ips, site, run, sync) :
     ips \in SUBSET Addrs, site \in BOOLEAN, run \in BOOLEAN, sync \in BOOLEAN}

\* what an entry can hold under run_compliance: nothing, or a dict
RunComplianceInputs ==
  {<<FALSE, "None", << >> >>}
  \cup ({TRUE} \X {"True", "False", "None"}
               \X SeqUpTo(CategoryNames, MaxCategories))

\* every entry a playbook can hold
InputConfigs ==
  {Entry(ips, site, rc[1], rc[2], rc[3], sync) :
     ips \in SUBSET (Addrs \cup BadAddrs), site \in BOOLEAN,
     rc \in RunComplianceInputs, sync \in BOOLEAN}

\* list.remove(x): the list without the first x it holds
RemoveFirst(s, x) ==
  LET i == Min({j \in DOMAIN s : s[j] = x})
  IN SubSeq(s, 1, i - 1) \o SubSeq(s, i + 1, Len(s))

\* get_want: the compliance types of compliance_detail_params, as the set
\* that list(set(compliance_types)) is joined from; none without categories
ComplianceTypes(categories) ==
  LET Members(s) == {s[i] : i \in DOMAIN s}
  IN IF categories = << >> THEN {}
     ELSE IF "INTENT" \in Members(categories)
     THEN Members(RemoveFirst(categories, "INTENT") \o IntentTypes)
     ELSE Members(categories)

\* the want dict of get_want: whether it holds run_compliance_params and
\* sync_device_config_params, the categories of run_compliance_params (a
\* copy of the entry's list) and the complianceType of
\* compliance_detail_params
Want(cfg, sync) ==
  [run_compliance_params |-> cfg.run_compliance,
   sync_device_config_params |-> sync,
   categories |-> IF cfg.run_compliance THEN cfg.categories ELSE << >>,
   complianceType |-> IF cfg.run_compliance THEN ComplianceTypes(cfg.categories)
                      ELSE {}]
\* self.want before get_want has built it
NoWant ==
  [run_compliance_params |-> FALSE, sync_device_config_params |-> FALSE,
   categories |-> << >>, complianceType |-> {}]

\* main up to the call of get_want on an entry of entries
Start(entries) ==
  /\ pc = "get_want"
  /\ config \in entries
  /\ remaining = {}
  /\ answers = NoAnswers
  /\ reported = NoReports
  /\ site_answer = "not asked"
  /\ membership = "not asked"
  /\ site_map = [bound |-> FALSE, map |-> << >>]
  /\ ip_map = << >>
  /\ mgmt_ip_instance_id_map = << >>
  /\ required = "unset"
  /\ compliance_details = EmptyDict
  /\ compliance_response = << >>
  /\ want = NoWant
  /\ action = 1
  /\ result_task_id = "none"
  /\ elapsed = 0
  /\ response = NoResponse
  /\ success_devices = {}
  /\ failed_devices = {}
  /\ status = "success"
  /\ result = [status |-> "", changed |-> FALSE, failed |-> FALSE,
               msg |-> NoMsg, data |-> EmptyDict]
  /\ called = {}
  /\ outcome = [a \in {"run_compliance", "sync_device_config"} |-> "none"]
  /\ effect = [a \in {"run_compliance", "sync_device_config"} |-> FALSE]

Init == Start(Configs)

\* DnacBase.is_valid_ipv4: four dotted fields, each 0..255
is_valid_ipv4(ip) ==
  /\ Len(Octets(ip)) = 4
  /\ \A i \in 1..4 : Octets(ip)[i] \in 0..255

\* validate_ip4_address_list: fail_json at the first entry that is not valid
validate_ip4_address_list(ip_address_list) ==
  IF \E ip \in ip_address_list : ~is_valid_ipv4(ip) THEN "fail_json" ELSE "continue"

\* validate_run_compliance without the check of the category names
validate_run_compliance_any_category(trigger_full, categories) ==
  IF trigger_full \notin {"True", "False"} THEN "fail_json"
  ELSE IF trigger_full = "False" /\ categories = << >> THEN "fail_json"
  ELSE "continue"

\* validate_run_compliance: fail_json if one of its three checks left a msg
validate_run_compliance(trigger_full, categories) ==
  LET msg1 == trigger_full \notin {"True", "False"}
      msg2 == trigger_full = "False" /\ categories = << >>
      msg3 == /\ categories # << >>
              /\ ~(\A i \in DOMAIN categories :
                     Upper(categories[i]) \in ValidCategories)
  IN IF msg1 \/ msg2 \/ msg3 THEN "fail_json" ELSE "continue"

(* ------------------------- device resolution --------------------------- *)

resolveVars == <<remaining, answers, reported, site_answer, membership, site_map, ip_map,
                 mgmt_ip_instance_id_map>>
wantVars == <<required, compliance_details, compliance_response, want>>
pollVars == <<action, result_task_id, elapsed, response, success_devices,
              failed_devices>>
resultVars == <<status, result, outcome, effect>>

\* get_want: either ip_address_list or site_name must be present and the
\* addresses valid; then get_device_id_list picks the branch
GetWantSelectors ==
  /\ pc = "get_want"
  /\ IF config.ip_address_list = {} /\ ~config.site_name
     THEN pc' = "fail_json" /\ UNCHANGED remaining
     ELSE IF validate_ip4_address_list(config.ip_address_list) = "fail_json"
     THEN pc' = "fail_json" /\ UNCHANGED remaining
     ELSE IF config.site_name
          THEN pc' = "site_exists" /\ UNCHANGED remaining
          ELSE pc' = "from_ip" /\ remaining' = config.ip_address_list
  /\ UNCHANGED <<config, answers, reported, site_answer, membership, site_map, ip_map,
                 mgmt_ip_instance_id_map, called>>
  /\ UNCHANGED <<wantVars, pollVars, resultVars>>

\* site_exists, and the 'if site_exists:' of get_device_id_list
SiteExists ==
  /\ pc = "site_exists"
  /\ called' = called \cup {"get_site"}
  /\ \E answer \in {"raise", "nothing", "empty", "found"} :
       /\ site_answer' = answer
       /\ CASE answer \in {"raise", "empty"} ->
                 \* the lookup raised, or site[0] did on an empty list
                 pc' = "fail_json" /\ UNCHANGED remaining
            [] answer = "nothing" ->
                 IF config.ip_address_list # {}
                 THEN pc' = "from_ip" /\ remaining' = config.ip_address_list
                 ELSE pc' = "id_list_return" /\ UNCHANGED remaining
            [] answer = "found" ->
                 pc' = "from_site" /\ UNCHANGED remaining
  /\ UNCHANGED <<config, answers, reported, membership, site_map, ip_map,
                 mgmt_ip_instance_id_map>>
  /\ UNCHANGED <<wantVars, pollVars, resultVars>>

\* get_device_ids_from_site: the scan of the membership up to the first
\* device that is not Reachable
RECURSIVE SiteScan(_, _)
SiteScan(members, acc) ==
  IF members = << >> THEN [map |-> acc, unreachable |-> FALSE]
  ELSE LET d == Head(members)
       IN IF d.reachable
          THEN SiteScan(Tail(members),
                        DictSet(acc, d.managementIpAddress, d.instanceUuid))
          ELSE [map |-> acc, unreachable |-> TRUE]

\* what an answer of get_membership amounts to
MembershipKind(answered, members) ==
  IF ~answered THEN "no answer"
  ELSE IF \E i \in DOMAIN members : ~members[i].reachable THEN "has unreachable"
  ELSE "all reachable"

\* get_device_ids_from_site. itemHasKeys: whether the membership entry that
\* wraps the device list itself carries managementIpAddress and
\* reachabilityStatus, which the failure message reads; without them the
\* KeyError is caught by the except clause and the scan just ends.
GetDeviceIdsFromSite ==
  /\ pc = "from_site"
  /\ called' = called \cup {"get_membership"}
  /\ \E members \in MemberLists, answered \in BOOLEAN, itemHasKeys \in BOOLEAN :
       LET scan == IF answered THEN SiteScan(members, << >>)
                   ELSE [map |-> << >>, unreachable |-> FALSE]
       IN
       /\ membership' = MembershipKind(answered, members)
       /\ IF scan.unreachable /\ itemHasKeys
          THEN pc' = "fail_json" /\ UNCHANGED <<site_map, remaining>>
          ELSE IF scan.map = << >>
          THEN pc' = "fail_json" /\ UNCHANGED <<site_map, remaining>>
          ELSE /\ site_map' = [bound |-> TRUE, map |-> scan.map]
               /\ IF config.ip_address_list # {}
                  THEN pc' = "from_ip" /\ remaining' = config.ip_address_list
                  ELSE pc' = "id_list_return" /\ UNCHANGED remaining
  /\ UNCHANGED <<config, answers, reported, site_answer, ip_map,
                 mgmt_ip_instance_id_map>>
  /\ UNCHANGED <<wantVars, pollVars, resultVars>>

\* get_device_ids_from_ip: the new map after one address's answer
IpMapAfter(m, device_ip, devices) ==
  IF \E i \in DOMAIN devices : devices[i].reachable
  THEN DictSet(m, device_ip, devices[1].id)
  ELSE m

\* the ids of the devices an answer of get_device_list reports Reachable
ReachableIds(raised, devices) ==
  IF raised THEN {}
  ELSE {devices[i].id : i \in {j \in DOMAIN devices : devices[j].reachable}}

\* what an answer of get_device_list amounts to
AnswerKind(raised, devices) ==
  IF raised THEN "raised"
  ELSE IF devices = << >> THEN "no device"
  ELSE IF \E i \in DOMAIN devices : devices[i].reachable THEN "reachable"
  ELSE "unreachable"

\* get_device_ids_from_ip: one iteration of the loop over the addresses,
\* in the order list(set(ip_address_list)) happens to have
GetDeviceIdsFromIp ==
  /\ pc = "from_ip"
  /\ remaining # {}
  /\ called' = called \cup {"get_device_list"}
  /\ \E device_ip \in remaining, raised \in BOOLEAN, devices \in DeviceLists :
       /\ remaining' = remaining \ {device_ip}
       /\ answers' = [answers EXCEPT ![device_ip] = AnswerKind(raised, devices)]
       /\ reported' = [reported EXCEPT ![device_ip] = ReachableIds(raised, devices)]
       /\ IF raised
          THEN \* caught by the except clause: on to the next address
               /\ pc' = IF remaining' = {} THEN "id_list_return" ELSE "from_ip"
               /\ UNCHANGED ip_map
          ELSE IF devices = << >>
          THEN \* the else branch of 'if response.get("response")' calls fail_json
               /\ pc' = "fail_json"
               /\ UNCHANGED ip_map
          ELSE /\ pc' = IF remaining' = {} THEN "id_list_return" ELSE "from_ip"
               /\ ip_map' = IpMapAfter(ip_map, device_ip, devices)
  /\ UNCHANGED <<config, site_answer, membership, site_map, mgmt_ip_instance_id_map>>
  /\ UNCHANGED <<wantVars, pollVars, resultVars>>

\* the comprehension without its 'if ip in site_mgmt_ip_instance_id_map'
Intersect_unfiltered(ipm, sitem) == ipm

\* get_device_id_list: the map the branch taken returns; with both selectors
\* the entries of the IP-list map whose address is in the site map
Intersect(ipm, sitem) ==
  LET InSite(pair) == pair[1] \in Keys(sitem)
  IN SelectSeq(ipm, InSite)

\* get_device_id_list: the return value of the branch taken
GetDeviceIdListReturn ==
  /\ pc = "id_list_return"
  /\ LET both == config.site_name /\ config.ip_address_list # {}
     IN IF both /\ ~site_map.bound /\ ip_map # << >>
        THEN \* site_mgmt_ip_instance_id_map is read while unbound
             /\ pc' = "crashed"
             /\ UNCHANGED mgmt_ip_instance_id_map
        ELSE /\ pc' = "check_map"
             /\ mgmt_ip_instance_id_map' =
                  IF both
                  THEN (IF site_map.bound THEN Intersect(ip_map, site_map.map)
                        ELSE << >>)
                  ELSE IF config.site_name THEN site_map.map
                  ELSE ip_map
  /\ UNCHANGED <<config, remaining, answers, reported, site_answer, membership,
                 site_map,
                 ip_map, called>>
  /\ UNCHANGED <<wantVars, pollVars, resultVars>>

\* get_want going on whatever get_device_id_list returned
CheckMap_pass(m) == "want_actions"

\* get_want: 'if not mgmt_ip_instance_id_map: fail_json'
CheckMap(m) == IF m = << >> THEN "fail_json" ELSE "want_actions"

\* get_want: an empty mgmt_ip_instance_id_map is fatal. The partial maps were
\* locals of get_device_id_list.
GetWantCheckMap ==
  /\ pc = "check_map"
  /\ pc' = CheckMap(mgmt_ip_instance_id_map)
  /\ site_map' = [bound |-> FALSE, map |-> << >>]
  /\ ip_map' = << >>
  /\ answers' = NoAnswers
  /\ reported' = NoReports
  /\ site_answer' = "not asked"
  /\ membership' = "not asked"
  /\ UNCHANGED <<config, remaining, mgmt_ip_instance_id_map, called>>
  /\ UNCHANGED <<wantVars, pollVars, resultVars>>

(* ------------------------- get_want: the actions ----------------------- *)

\* get_want going on to build the want dict whatever is_sync_required said
SyncGate_open(req) == "dispatch"

\* get_want: 'if not required: fail_json' before the want dict is built
SyncGate(req) == IF req THEN "dispatch" ELSE "fail_json"

\* get_want from 'run_compliance = config.get(...)' on: the requested actions,
\* and for sync_device_config the RUNNING_CONFIG detail and is_sync_required.
\* The entry's own categories list, which the expansion of INTENT edits in
\* place, is not read again; config keeps the entry as the playbook wrote it.
GetWantActions ==
  /\ pc = "want_actions"
  /\ IF ~config.run_compliance /\ ~config.sync_device_config
     THEN /\ pc' = "fail_json"
          /\ UNCHANGED <<wantVars, called>>
     ELSE IF /\ config.run_compliance
             /\ validate_run_compliance(config.trigger_full, config.categories)
                  = "fail_json"
     THEN /\ pc' = "fail_json"
          /\ UNCHANGED <<wantVars, called>>
     ELSE IF ~config.sync_device_config
     THEN /\ want' = Want(config, FALSE)
          /\ pc' = "dispatch"
          /\ UNCHANGED <<required, compliance_details, compliance_response, called>>
     ELSE /\ called' = called \cup {"get_compliance_detail"}
          /\ \E answer \in ComplianceResponses :
               LET modified == modify_compliance_response(answer, mgmt_ip_instance_id_map)
               IN
               /\ compliance_response' = answer
               /\ IF ~modified.ok
                  THEN \* as when get_compliance_detail itself raises
                       /\ pc' = "crashed"
                       /\ UNCHANGED <<required, compliance_details, want>>
                  ELSE /\ compliance_details' = modified.value
                       /\ LET req == is_sync_required(modified.value,
                                                      mgmt_ip_instance_id_map)
                          IN /\ required' = IF req THEN "yes" ELSE "no"
                             /\ pc' = SyncGate(req)
                             /\ IF SyncGate(req) = "dispatch"
                                THEN want' = Want(config, TRUE)
                                ELSE UNCHANGED want
  /\ UNCHANGED <<config, resolveVars, pollVars, resultVars>>

(* --------------------------- get_diff_merged --------------------------- *)

Requested(a) ==
  IF a = "run_compliance" THEN want.run_compliance_params
  ELSE want.sync_device_config_params

\* the control-plane function an action's dispatcher calls
DispatchCall(a) ==
  IF a = "run_compliance" THEN "run_compliance" ELSE "commit_device_configuration"

\* where the for loop of get_diff_merged goes after the action in work
AfterAction == IF action = Len(ActionOrder) THEN "diff_done" ELSE "dispatch"
NextAction == IF action = Len(ActionOrder) THEN action ELSE action + 1

\* get_diff_merged calling the poller whatever the dispatcher returned
EntersPoller_always(task_id) == TRUE

\* get_diff_merged: 'if not result_task_id' decides whether the poller runs
EntersPoller(task_id) == task_id # "none"

\* get_diff_merged: one iteration of the loop up to the call of the poller;
\* gotTaskId is whether action_func returned a task id
Dispatch ==
  /\ pc = "dispatch"
  /\ LET a == ActionOrder[action]
     IN IF ~Requested(a)
        THEN /\ pc' = AfterAction
             /\ action' = NextAction
             /\ result_task_id' = "none"
             /\ UNCHANGED <<called, resultVars>>
        ELSE /\ called' = called \cup {DispatchCall(a)}
             /\ \E gotTaskId \in BOOLEAN :
                  /\ result_task_id' = IF gotTaskId THEN "T1" ELSE "none"
                  /\ IF EntersPoller(result_task_id')
                     THEN /\ pc' = "poll"
                          /\ UNCHANGED <<action, resultVars>>
                     ELSE /\ result' = update_result(result, "failed", FALSE,
                                           Msg("no_task_id", {}, {}, FALSE), EmptyDict)
                          /\ status' = "failed"
                          /\ outcome' = [outcome EXCEPT ![a] = "FAILED"]
                          /\ pc' = AfterAction
                          /\ action' = NextAction
                          /\ UNCHANGED effect
  \* the previous poller's locals are gone; the next poller starts its clock
  /\ elapsed' = 0
  /\ response' = NoResponse
  /\ success_devices' = {}
  /\ failed_devices' = {}
  /\ UNCHANGED <<config, resolveVars, wantVars>>

\* a poller's terminal update_result, then the check_return_status that
\* get_diff_merged chains to the poller
Finish(a, st, changed, msg, data, eff) ==
  /\ result' = update_result(result, st, changed, msg, data)
  /\ status' = st
  /\ outcome' = [outcome EXCEPT ![a] = IF st = "failed" THEN "FAILED" ELSE "SUCCESS"]
  /\ effect' = [effect EXCEPT ![a] = eff]
  /\ IF check_return_status(st) = "fail_json"
     THEN pc' = "fail_json" /\ UNCHANGED action
     ELSE pc' = AfterAction /\ action' = NextAction

\* an unhandled exception ends the invocation inside the poller
Crash ==
  /\ pc' = "crashed"
  /\ UNCHANGED <<action, resultVars>>

\* get_compliance_task_status: one iteration of the while loop
PollCompliance ==
  /\ pc = "poll"
  /\ ActionOrder[action] = "run_compliance"
  /\ \E dt \in TimeSteps :
       /\ elapsed' = elapsed + dt
       /\ \/ \* get_task_status returned nothing
             /\ response' = NoResponse
             /\ called' = called \cup {"get_task_by_id"}
             /\ UNCHANGED compliance_response
             /\ Finish("run_compliance", "failed", FALSE,
                       Msg("status_error", {}, {}, FALSE), EmptyDict, FALSE)
          \/ \E resp \in TaskStatuses :
               /\ response' = resp
               /\ IF exit_while_loop(elapsed', resp) = "timeout"
                  THEN /\ called' = called \cup {"get_task_by_id"}
                       /\ UNCHANGED compliance_response
                       /\ Finish("run_compliance", "failed", FALSE,
                                 TimeoutMsg(resp.data), EmptyDict, FALSE)
                  ELSE
                    CASE ComplianceVerdict(resp) = "error" ->
                           /\ called' = called \cup {"get_task_by_id"}
                           /\ UNCHANGED compliance_response
                           /\ \E hasReason \in BOOLEAN :
                                Finish("run_compliance", "failed", FALSE,
                                       ErrorMsg(mgmt_ip_instance_id_map, hasReason),
                                       EmptyDict, FALSE)
                      [] ComplianceVerdict(resp) = "success" ->
                           /\ called' = called \cup {"get_task_by_id",
                                                      "get_compliance_detail"}
                           /\ \/ \* get_compliance_detail raised
                                 Crash /\ UNCHANGED compliance_response
                              \/ \E answer \in ComplianceResponses :
                                   LET modified == modify_compliance_response(
                                                     answer, mgmt_ip_instance_id_map)
                                   IN /\ compliance_response' = answer
                                      /\ IF ~modified.ok
                                         THEN Crash
                                         ELSE Finish("run_compliance", "success", TRUE,
                                                     Msg("compliance_done", {},
                                                         Keys(mgmt_ip_instance_id_map),
                                                         FALSE),
                                                     modified.value, TRUE)
                      [] ComplianceVerdict(resp) = "failed" ->
                           /\ called' = called \cup {"get_task_by_id"}
                           /\ UNCHANGED compliance_response
                           /\ Finish("run_compliance", "failed", FALSE,
                                     Msg("compliance_failed",
                                         Keys(mgmt_ip_instance_id_map), {}, FALSE),
                                     EmptyDict, FALSE)
                      [] ComplianceVerdict(resp) = "poll_again" ->
                           /\ called' = called \cup {"get_task_by_id"}
                           /\ pc' = "poll"
                           /\ UNCHANGED <<action, resultVars, compliance_response>>
  /\ UNCHANGED <<config, resolveVars, required, compliance_details, want,
                 result_task_id, success_devices, failed_devices>>

\* get_sync_config_task_status: one iteration of the while loop
PollSync ==
  /\ pc = "poll"
  /\ ActionOrder[action] = "sync_device_config"
  /\ called' = called \cup {"get_task_tree"}
  /\ \E dt \in TimeSteps :
       /\ elapsed' = elapsed + dt
       /\ \/ \* get_task_tree returned nothing
             /\ response' = NoResponse
             /\ success_devices' = {}
             /\ failed_devices' = {}
             /\ Finish("sync_device_config", "failed", FALSE,
                       Msg("tree_error", {}, {}, FALSE), EmptyDict, FALSE)
          \/ \E tree \in TaskTrees :
               LET succ == SuccessDevices(tree.items, mgmt_ip_instance_id_map)
                   fail == FailedDevices(tree.items, mgmt_ip_instance_id_map)
                   verdict == SyncVerdict(succ, fail, Len(mgmt_ip_instance_id_map))
               IN
               /\ response' = TreeResponse(tree)
               /\ IF exit_while_loop(elapsed', TreeResponse(tree)) # "continue"
                  THEN \* "timeout" cannot be: the AttributeError comes first
                       Crash /\ success_devices' = {} /\ failed_devices' = {}
                  ELSE IF tree.isError
                  THEN \* response.get("failureReason") on the list
                       Crash /\ success_devices' = {} /\ failed_devices' = {}
                  ELSE
                    \* on 'poll again' the loop top empties the two lists again
                    /\ success_devices' = IF verdict = "poll_again" THEN {} ELSE succ
                    /\ failed_devices' = IF verdict = "poll_again" THEN {} ELSE fail
                    /\ CASE verdict = "success" ->
                              Finish("sync_device_config", "success", TRUE,
                                     Msg("sync_done", {}, succ, FALSE),
                                     EmptyDict, succ # {})
                         [] verdict = "mixed" ->
                              Finish("sync_device_config", "failed", TRUE,
                                     Msg("sync_mixed", fail, succ, FALSE),
                                     EmptyDict, succ # {})
                         [] verdict = "all_failed" ->
                              Finish("sync_device_config", "failed", FALSE,
                                     Msg("sync_failed", fail, {}, FALSE),
                                     EmptyDict, succ # {})
                         [] verdict = "poll_again" ->
                              /\ pc' = "poll"
                              /\ UNCHANGED <<action, resultVars>>
  /\ UNCHANGED <<config, resolveVars, wantVars, result_task_id>>

\* main: check_return_status after get_diff_merged, then exit_json
MainExit ==
  /\ pc = "diff_done"
  /\ pc' = IF check_return_status(status) = "fail_json"
           THEN "fail_json" ELSE "exit_json"
  /\ UNCHANGED <<config, resolveVars, wantVars, pollVars, resultVars, called>>

Next ==
  \/ GetWantSelectors
  \/ SiteExists
  \/ GetDeviceIdsFromSite
  \/ GetDeviceIdsFromIp
  \/ GetDeviceIdListReturn
  \/ GetWantCheckMap
  \/ GetWantActions
  \/ Dispatch
  \/ PollCompliance
  \/ PollSync
  \/ MainExit

Spec == Init /\ [][Next]_vars

(* ------------------- the stages taken one at a time -------------------- *)

\* every TargetSet get_device_id_list can return
TargetSets ==
  {m \in SeqUpTo(Addrs \X Uuids, Cardinality(Addrs)) :
     /\ m # << >>
     /\ \A i, j \in DOMAIN m : m[i][1] = m[j][1] => i = j}

\* A state of the invocation past device resolution of a playbook entry that
\* names a site: at pcv, with target set m, the requested actions, the
\* outcome of the sync precondition, the action in work and the calls made.
PastOf(pcv, cfg, m, req, details, act, calls) ==
  /\ pc = pcv
  /\ config = cfg
  /\ remaining = {}
  /\ answers = NoAnswers
  /\ reported = NoReports
  /\ site_answer = "not asked"
  /\ membership = "not asked"
  /\ site_map = [bound |-> FALSE, map |-> << >>]
  /\ ip_map = << >>
  /\ mgmt_ip_instance_id_map = m
  /\ required = req
  /\ compliance_details = details
  /\ compliance_response =
       IF details = EmptyDict THEN << >>
       ELSE [i \in DOMAIN m |-> details[m[i][1]][1]]
  /\ want = IF pcv = "want_actions" THEN NoWant
            ELSE Want(cfg, cfg.sync_device_config)
  /\ action = act
  /\ result_task_id = IF pcv = "poll" THEN "T1" ELSE "none"
  /\ elapsed = 0
  /\ response = NoResponse
  /\ success_devices = {}
  /\ failed_devices = {}
  /\ status = "success"
  /\ result = [status |-> "", changed |-> FALSE, failed |-> FALSE,
               msg |-> NoMsg, data |-> EmptyDict]
  /\ called = {"get_site", "get_membership"} \cup calls
  /\ outcome = [a \in {"run_compliance", "sync_device_config"} |-> "none"]
  /\ effect = [a \in {"run_compliance", "sync_device_config"} |-> FALSE]

\* the same for a well-formed entry that selects by site
Past(pcv, m, run, sync, req, details, act, calls) ==
  PastOf(pcv, WellFormed({}, TRUE, run, sync), m, req, details, act, calls)

\* get_device_id_list has returned target set m
Resolved(m, run, sync) ==
  Past("want_actions", m, run, sync, "unset", EmptyDict, 1, {})

\* Device resolution alone: get_want up to the return of get_device_id_list.
NextResolve ==
  \/ GetWantSelectors
  \/ SiteExists
  \/ GetDeviceIdsFromSite
  \/ GetDeviceIdsFromIp
  \/ GetDeviceIdListReturn
  \/ GetWantCheckMap

SpecResolve == Init /\ [][NextResolve]_vars

\* get_want as a whole and the dispatch of the actions it prepared, without
\* the pollers.
NextPrepare ==
  \/ NextResolve
  \/ GetWantActions
  \/ Dispatch

SpecPrepare == Init /\ [][NextPrepare]_vars

\* The same from every entry a playbook can hold, malformed ones included.
InitValidate == Start(InputConfigs)

SpecValidate == InitValidate /\ [][NextPrepare]_vars

\* The rest of the invocation, from a resolved target set on.
InitActions ==
  \E m \in TargetSets, run \in BOOLEAN, sync \in BOOLEAN : Resolved(m, run, sync)

NextActions ==
  \/ GetWantActions
  \/ Dispatch
  \/ PollCompliance
  \/ PollSync
  \/ MainExit

SpecActions == InitActions /\ [][NextActions]_vars

\* The precondition of sync_device_config alone.
InitWant == \E m \in TargetSets, run \in BOOLEAN : Resolved(m, run, TRUE)

SpecWant == InitWant /\ [][GetWantActions]_vars

\* The compliance poller alone: run_compliance has returned a task id.
InitCompliancePoller ==
  \E m \in TargetSets :
    Past("poll", m, TRUE, FALSE, "unset", EmptyDict, 1, {"run_compliance"})

NextCompliancePoller ==
  \/ PollCompliance
  \/ Dispatch
  \/ MainExit

SpecCompliancePoller == InitCompliancePoller /\ [][NextCompliancePoller]_vars

\* The sync poller alone: every target device had one RUNNING_CONFIG record,
\* NON_COMPLIANT, and sync_device_config has returned a task id.
AllNonCompliant(m) ==
  [ip \in Keys(m) |-> <<[deviceUuid |-> Get(m, ip), status |-> "NON_COMPLIANT"]>>]

InitSyncPoller ==
  \E m \in TargetSets :
    /\ \A i, j \in DOMAIN m : m[i][2] = m[j][2] => i = j
    /\ Past("poll", m, FALSE, TRUE, "yes", AllNonCompliant(m), 2,
            {"get_compliance_detail", "commit_device_configuration"})

NextSyncPoller ==
  \/ PollSync
  \/ MainExit

SpecSyncPoller == InitSyncPoller /\ [][NextSyncPoller]_vars

\* The sync poller with a wall clock that advances: time.time() grows while
\* the loop runs, so a poll with a later clock value is always due.
LiveSyncPoller ==
  SpecSyncPoller /\ WF_vars(PollSync /\ elapsed' > elapsed)

\* The scan of the subtask entries alone (the for loop over response[1:] and
\* the two set() calls), on a task tree kept with its progress texts.
ScanTaskTree ==
  /\ pc = "poll"
  /\ ActionOrder[action] = "sync_device_config"
  /\ \E tree \in TaskTrees :
       /\ response' = [kind |-> "tree", isError |-> tree.isError,
                       items |-> tree.items]
       /\ success_devices' = SuccessDevices(tree.items, mgmt_ip_instance_id_map)
       /\ failed_devices' = FailedDevices(tree.items, mgmt_ip_instance_id_map)
  /\ pc' = "scanned"
  /\ UNCHANGED <<config, resolveVars, wantVars, action, result_task_id, elapsed,
                 resultVars, called>>

SpecScan == InitSyncPoller /\ [][ScanTaskTree]_vars

\* Both actions requested, from the point where run_compliance has returned
\* a task id.
InitBothActions ==
  \E m \in TargetSets :
    /\ \A i, j \in DOMAIN m : m[i][2] = m[j][2] => i = j
    /\ Past("poll", m, TRUE, TRUE, "yes", AllNonCompliant(m), 1,
            {"get_compliance_detail", "run_compliance"})

NextBothActions ==
  \/ PollCompliance
  \/ Dispatch
  \/ PollSync
  \/ MainExit

SpecBothActions == InitBothActions /\ [][NextBothActions]_vars

\* The categories of run_compliance alone: get_want from a resolved target
\* set on, for every categories list a playbook can write.
InitCategories ==
  \E m \in TargetSets, trigger_full \in {"True", "False"},
     categories \in SeqUpTo(CategoryNames, MaxRequested), sync \in BOOLEAN :
    PastOf("want_actions", Entry({}, TRUE, TRUE, trigger_full, categories, sync),
           m, "unset", EmptyDict, 1, {})

SpecCategories == InitCategories /\ [][GetWantActions]_vars

(* ------------------------------ claims --------------------------------- *)

Targets == Keys(mgmt_ip_instance_id_map)
\* the last task-tree poll came back in time with a root entry not in error
TreePolledInTime ==
  response.kind = "tree" /\ ~response.isError /\ elapsed <= Timeout

\* C1: when a task-tree poll in time shows every target device failed and
\* none succeeded, the sync poller ends with status 'failed', changed false.
C1_AllFailedEndsUnchanged ==
  (TreePolledInTime /\ failed_devices = Targets /\ success_devices = {})
  => (pc # "poll" /\ result.status = "failed" /\ result.changed = FALSE)

\* C2: when a task-tree poll in time shows some target devices succeeded and
\* all the others failed, the sync poller ends with status 'failed', changed
\* true, and a message naming the failed and the succeeded devices.
C2_MixedEndsFailedChanged ==
  (/\ TreePolledInTime
   /\ success_devices # {} /\ failed_devices # {}
   /\ Targets \ success_devices \subseteq failed_devices
   /\ Cardinality(success_devices) + Cardinality(failed_devices)
        = Cardinality(Targets))
  => /\ pc # "poll"
     /\ result.status = "failed" /\ result.changed = TRUE
     /\ outcome["sync_device_config"] = "FAILED"
     /\ result.msg.failed = failed_devices
     /\ result.msg.succeeded = success_devices

C2_Witness ==
  /\ pc = "fail_json" /\ TreePolledInTime
  /\ success_devices = {"10.0.0.1"} /\ failed_devices = {"10.0.0.2"}
  /\ result.msg = Msg("sync_mixed", {"10.0.0.2"}, {"10.0.0.1"}, FALSE)

\* get_diff_merged has processed the requested actions, or a failed poller
\* has ended the invocation
Processed ==
  \/ pc \in {"diff_done", "exit_json"}
  \/ pc = "fail_json" /\ \E a \in DOMAIN outcome : outcome[a] # "none"

\* C3: once the requested actions are processed, the result status is
\* 'failed' if any of them ended FAILED, and 'success' only if every
\* requested action ended SUCCESS.
C3_StatusFailedIfAnyActionFailed ==
  Processed =>
    /\ (\E a \in DOMAIN outcome : outcome[a] = "FAILED") => result.status = "failed"
    /\ result.status = "success" =>
         \A a \in DOMAIN outcome : Requested(a) => outcome[a] = "SUCCESS"

\* C4: the final changed flag is true exactly if some requested action ended
\* with an observable state change; a later action without effect does not
\* reset it.
C4_ChangedIffSomeEffect ==
  Processed => (result.changed <=> \E a \in DOMAIN effect : effect[a])

\* C5: a task-tree poll that comes back more than 360 seconds after the sync
\* poller started ends the poller with status 'failed', changed false and a
\* timeout message; it neither polls on nor ends in an unhandled error.
C5_SyncTimeoutEndsFailed ==
  (response.kind = "tree" /\ elapsed > Timeout)
  => /\ pc \notin {"poll", "crashed"}
     /\ result.status = "failed" /\ result.changed = FALSE
     /\ result.msg.kind = "timeout"

\* C6: a non-empty task status that comes back more than 360 seconds after
\* the compliance poller started ends it with status 'failed' and changed
\* false, whatever progress text and error flag the status carries.
C6_ComplianceTimeoutEndsFailed ==
  (response.kind = "status" /\ elapsed > Timeout)
  => /\ pc # "poll"
     /\ result.status = "failed" /\ result.changed = FALSE
     /\ outcome["run_compliance"] = "FAILED"
     /\ result.msg = TimeoutMsg(response.data)

C6_Witness ==
  /\ response.kind = "status" /\ elapsed > Timeout
  /\ ~response.isError /\ "Success" \in response.progress
  /\ pc = "fail_json" /\ result.status = "failed"

\* C7: commit_device_configuration is invoked only if is_sync_required
\* returned required=True; when it returned False the invocation has ended
\* in fail_json and commit_device_configuration is never invoked.
C7_CommitOnlyIfRequired ==
  /\ "commit_device_configuration" \in called => required = "yes"
  /\ required = "no" =>
       pc = "fail_json" /\ "commit_device_configuration" \notin called

C7_Witness ==
  /\ required = "yes" /\ "commit_device_configuration" \in called
  /\ Cardinality(Targets) = 2

\* C8: is_sync_required returns required=True exactly if every one of the N
\* target devices has a first record with status NON_COMPLIANT; it returns
\* False when all are COMPLIANT and whenever a target device is COMPLIANT,
\* has another status or has no record.
C8_RequiredIffAllNonCompliant ==
  required # "unset" =>
    (required = "yes" <=>
       \A ip \in Targets :
         /\ ip \in DOMAIN compliance_details
         /\ compliance_details[ip][1].status = "NON_COMPLIANT")

C8_Witness ==
  /\ required = "no" /\ Cardinality(Targets) = 2
  /\ DOMAIN compliance_details = Targets
  /\ compliance_details["10.0.0.1"][1].status = "NON_COMPLIANT"
  /\ compliance_details["10.0.0.2"][1].status = "COMPLIANT"

\* C9: with both selectors and a site that resolves, get_device_id_list
\* returns the entries of exactly the addresses that are in the reachable set
\* derived from the IP list and also in the set derived from the site.
C9_BothSelectorsIntersect ==
  (/\ pc = "check_map"
   /\ config.site_name /\ config.ip_address_list # {} /\ site_map.bound)
  => /\ Targets = {ip \in config.ip_address_list : answers[ip] = "reachable"}
                    \cap Keys(site_map.map)
     /\ \A ip \in Targets : Get(mgmt_ip_instance_id_map, ip) = Get(ip_map, ip)

C9_Witness ==
  /\ pc = "check_map" /\ config.site_name /\ site_map.bound
  /\ config.ip_address_list = {"10.0.0.1", "10.0.0.2"}
  /\ Keys(ip_map) = {"10.0.0.1", "10.0.0.2"}
  /\ Keys(site_map.map) = {"10.0.0.1"}
  /\ Targets = {"10.0.0.1"}

\* C10: with only an IP list, an address whose query finds no device, finds
\* only unreachable devices or raises is left out of the TargetSet without
\* failing the invocation: the invocation fails only after all addresses
\* were queried and none resolved to a reachable device.
C10_UnresolvedAddressIsSkipped ==
  (~config.site_name) =>
    /\ \A ip \in Addrs :
         answers[ip] \in {"no device", "unreachable", "raised"}
           => ip \notin Keys(ip_map)
    /\ pc = "fail_json" =>
         /\ remaining = {}
         /\ \A ip \in Addrs : answers[ip] # "reachable"

\* C11: when the site membership holds a device that is not Reachable, the
\* invocation fails at that point: get_device_ids_from_site returns no map,
\* resolution does not go on and no TargetSet reaches get_want.
C11_UnreachableMemberIsFatal ==
  membership = "has unreachable" =>
    /\ pc = "fail_json"
    /\ ~site_map.bound
    /\ mgmt_ip_instance_id_map = << >>

\* the site lookup raised, returned nothing or returned an empty list
SiteNotFound == site_answer \in {"raise", "nothing", "empty"}

\* C12: when the site lookup does not find the site, the invocation is on its
\* way to fail_json or there, with an empty TargetSet, in the site-only and in
\* the both-selectors mode; it does not end in an unhandled error, and no
\* membership query or action dispatch is made.
C12_SiteNotFoundIsFatal ==
  SiteNotFound =>
    /\ pc \in {"fail_json", "from_ip", "id_list_return", "check_map"}
    /\ mgmt_ip_instance_id_map = << >>
    /\ called \cap {"get_membership", "run_compliance",
                    "commit_device_configuration"} = {}

\* C13: with an empty TargetSet get_want never gets past its check: no
\* compliance detail is queried, no run_compliance or
\* commit_device_configuration call is made, and once get_device_id_list has
\* returned an empty map the invocation is in fail_json.
C13_NoActionOnEmptyTargetSet ==
  mgmt_ip_instance_id_map = << >> =>
    /\ pc \notin {"want_actions", "dispatch", "poll", "diff_done", "exit_json"}
    /\ called \cap {"get_compliance_detail", "run_compliance",
                    "commit_device_configuration"} = {}
    /\ want = NoWant

\* both selectors given, every address of the list resolved to a reachable
\* device, none of them is in the site: the check of get_want has failed
C13_Witness ==
  /\ pc = "fail_json" /\ mgmt_ip_instance_id_map = << >>
  /\ config.site_name /\ config.ip_address_list = {"10.0.0.1"}
  /\ called = {"get_site", "get_membership", "get_device_list"}
  /\ remaining = {} /\ answers = NoAnswers

\* the last task status came back in time
StatusPolledInTime == response.kind = "status" /\ elapsed <= Timeout

C20_SyncErrorFlagEndsFailed ==
  (response.kind = "tree" /\ response.isError /\ elapsed <= Timeout)
  => /\ pc \notin {"poll", "crashed"}
     /\ result.status = "failed" /\ result.changed = FALSE
     /\ result.msg.kind = "error"

\* the status queries of the two pollers
PollerQueries == {"get_task_by_id", "get_task_tree"}

\* C16: a step of get_diff_merged in which the dispatcher of a requested
\* action returns no task id records the action as failed with changed
\* false, makes no status query and does not enter the poller; a poller is
\* only ever running with a task id.
C16_DispatchFailureSkipsPoller ==
  /\ [](pc = "poll" => result_task_id # "none")
  /\ [][(/\ pc = "dispatch"
         /\ Requested(ActionOrder[action])
         /\ result_task_id' = "none")
        => /\ pc' # "poll"
           /\ outcome'[ActionOrder[action]] = "FAILED"
           /\ result'.status = "failed" /\ result'.changed = FALSE
           /\ called' \cap PollerQueries = called \cap PollerQueries]_vars

\* commit_device_configuration returned no task id after the compliance
\* check had run: no task tree was ever queried
C16_Witness ==
  /\ outcome["sync_device_config"] = "FAILED"
  /\ result.msg.kind = "no_task_id" /\ result.changed = FALSE
  /\ "commit_device_configuration" \in called
  /\ "get_task_tree" \notin called
  /\ outcome["run_compliance"] = "SUCCESS"

\* the ways an entry is malformed
NoSelector == config.ip_address_list = {} /\ ~config.site_name
InvalidAddress == config.ip_address_list \cap BadAddrs # {}
NoCategories ==
  config.run_compliance /\ config.trigger_full = "False" /\ config.categories = << >>
InvalidCategory ==
  /\ config.run_compliance
  /\ \E i \in DOMAIN config.categories :
       config.categories[i] \notin
         {"INTENT", "intent", "RUNNING_CONFIG", "NETWORK_SETTINGS"}

\* C17: for an entry with no selector, an invalid address, trigger_full false
\* without categories or an invalid category, get_want never hands over to
\* get_diff_merged and neither run_compliance nor commit_device_configuration
\* is called; with no selector or an invalid address the invocation is in
\* fail_json right after the first step, with no control-plane call made.
C17_MalformedInputIsFatal ==
  /\ (NoSelector \/ InvalidAddress \/ NoCategories \/ InvalidCategory)
     => /\ pc \notin {"dispatch", "poll", "diff_done", "exit_json"}
        /\ want = NoWant
        /\ called \cap {"run_compliance", "commit_device_configuration"} = {}
  /\ (NoSelector \/ InvalidAddress)
     => pc \in {"get_want", "fail_json"} /\ called = {}

\* an invalid category is found after the devices were resolved
C17_Witness ==
  /\ pc = "fail_json"
  /\ config.run_compliance /\ config.trigger_full = "True"
  /\ config.categories = <<"BOGUS">> /\ config.sync_device_config
  /\ mgmt_ip_instance_id_map # << >>
  /\ called = {"get_device_list"}

\* the records of s at the positions idx, in the order of s, from position i on
RECURSIVE SubSeqAt(_, _, _)
SubSeqAt(s, idx, i) ==
  IF i > Len(s) THEN << >>
  ELSE (IF i \in idx THEN <<s[i]>> ELSE << >>) \o SubSeqAt(s, idx, i + 1)

\* every record of the last compliance detail belongs to a target device
RecordsOfTargets ==
  \A i \in DOMAIN compliance_response :
    compliance_response[i].deviceUuid \in Values(mgmt_ip_instance_id_map)

\* C18: when every record's deviceUuid is the value of some address of the
\* map, the translation get_want stores assigns each record to one address
\* mapped to its deviceUuid, and the list under an address is exactly the
\* records assigned to it, in input order: every record is there once, none
\* is dropped or added; the map is as it was.
C18_TranslationKeepsEveryRecord ==
  (pc # "want_actions" /\ RecordsOfTargets) =>
    /\ pc # "crashed"
    /\ mgmt_ip_instance_id_map \in TargetSets
    /\ \E f \in [DOMAIN compliance_response -> Targets] :
         /\ \A i \in DOMAIN compliance_response :
              Get(mgmt_ip_instance_id_map, f[i]) = compliance_response[i].deviceUuid
         /\ DOMAIN compliance_details = {f[i] : i \in DOMAIN compliance_response}
         /\ \A ip \in DOMAIN compliance_details :
              compliance_details[ip] =
                SubSeqAt(compliance_response,
                         {i \in DOMAIN compliance_response : f[i] = ip}, 1)

\* two records of one device with different statuses, kept in input order
C18_Witness ==
  /\ pc # "want_actions" /\ RecordsOfTargets
  /\ Len(compliance_response) = 2
  /\ compliance_response[1].deviceUuid = compliance_response[2].deviceUuid
  /\ compliance_response[1].status = "NON_COMPLIANT"
  /\ compliance_response[2].status = "COMPLIANT"
  /\ Cardinality(Targets) = 2
  /\ \E ip \in Targets : compliance_details[ip] = compliance_response

\* a record of the last compliance detail belongs to no target device
ForeignRecord == ~RecordsOfTargets

SaysSuccess == response.progress \cap {"Success", "success"} # {}
SaysFailed == "Failed" \in response.progress

DeviceId(ip) == Get(mgmt_ip_instance_id_map, ip)

\* C22: after the scan of a task tree, a target device is in the success set
\* only if some subtask progress pairs its own id with
\* copy_Running_To_Startup=Success, and in the failed set only if some
\* progress pairs its own id with copy_Running_To_Startup=Failed.
C22_ClassifiedByOwnMarker ==
  pc = "scanned" =>
    \A ip \in Targets :
      /\ ip \in success_devices =>
           \E text \in response.items : <<DeviceId(ip), SuccessMarker>> \in text
      /\ ip \in failed_devices =>
           \E text \in response.items : <<DeviceId(ip), FailedMarker>> \in text

\* C23: with every query answered and the clock advancing, a poller that is
\* polling eventually ends its action with one of the outcomes SUCCESS or
\* FAILED (a timeout being reported as FAILED), whatever progress the
\* answers carry. Answers with the error flag set are left aside here.
C23_PollersTerminate ==
  (pc = "poll")
    ~> (\/ outcome[ActionOrder[action]] \in {"SUCCESS", "FAILED"}
        \/ response.isError)

\* the compliance action is over: it failed at dispatch or its poller ended
ComplianceActionOver == outcome["run_compliance"] # "none"

\* C24: with both actions requested, run_compliance comes first and the two
\* never overlap: commit_device_configuration is not called, and no task
\* tree is polled, before the compliance action has failed at dispatch or
\* its poller has ended; while the compliance poller polls, nothing of
\* sync_device_config has been called.
C24_ComplianceBeforeSync ==
  (want.run_compliance_params /\ want.sync_device_config_params) =>
    /\ ({"commit_device_configuration", "get_task_tree"} \cap called # {})
         => ComplianceActionOver
    /\ (pc = "poll" /\ ActionOrder[action] = "run_compliance")
         => {"commit_device_configuration", "get_task_tree"} \cap called = {}
    /\ (pc = "poll" /\ ActionOrder[action] = "sync_device_config")
         => ComplianceActionOver

\* both requested, the compliance poller ended SUCCESS, the sync poller polls
C24_Witness ==
  /\ want.run_compliance_params /\ want.sync_device_config_params
  /\ outcome["run_compliance"] = "SUCCESS"
  /\ "get_task_by_id" \in called
  /\ "get_task_tree" \in called

\* C25: with only an address list, every id in the target set
\* get_device_id_list returns is the id of a device that get_device_list
\* reported Reachable for that address.
C25_OnlyReachableIdsStored ==
  (pc = "check_map" /\ ~config.site_name) =>
    \A i \in DOMAIN mgmt_ip_instance_id_map :
      mgmt_ip_instance_id_map[i][2] \in reported[mgmt_ip_instance_id_map[i][1]]

\* get_want has built the want dict for a run_compliance with categories
CategoriesAccepted ==
  pc = "dispatch" /\ want.run_compliance_params /\ config.categories # << >>

\* C26: for every accepted categories list that asks for INTENT, the
\* complianceType filter holds no INTENT but the five types that stand for
\* it; every other requested category is in the filter; and the categories
\* handed to the run_compliance trigger are the list as requested.
C26_IntentExpandedInFilter ==
  CategoriesAccepted =>
    LET requested == {config.categories[i] : i \in DOMAIN config.categories}
        five == {"NETWORK_PROFILE", "APPLICATION_VISIBILITY", "WORKFLOW",
                 "FABRIC", "NETWORK_SETTINGS"}
    IN /\ "INTENT" \in requested
            => "INTENT" \notin want.complianceType /\ five \subseteq want.complianceType
       /\ requested \ {"INTENT"} \subseteq want.complianceType
       /\ want.categories = config.categories

\* C27: with both actions requested and is_sync_required returning False,
\* the invocation has ended in fail_json inside get_want: the want dict was
\* never built, and neither the run_compliance trigger nor its status query
\* is ever called.
C27_FailedPreconditionStopsCompliance ==
  (config.run_compliance /\ config.sync_device_config /\ required = "no") =>
    /\ pc = "fail_json"
    /\ want = NoWant
    /\ called \cap {"run_compliance", "get_task_by_id"} = {}

\* both requested on two target devices, the precondition said no
C27_Witness ==
  /\ config.run_compliance /\ config.sync_device_config
  /\ required = "no" /\ pc = "fail_json"
  /\ Cardinality(Targets) = 2
  /\ "get_compliance_detail" \in called

\* the compliance poller ran and ended FAILED
CompliancePollerFailed ==
  outcome["run_compliance"] = "FAILED" /\ "get_task_by_id" \in called

\* C28: with both actions requested, once the compliance poller has ended
\* FAILED (no status, timeout, error flag or 'failed' in the progress) the
\* invocation is in fail_json: commit_device_configuration is never called
\* and no task tree is polled.
C28_FailedComplianceStopsInvocation ==
  (want.sync_device_config_params /\ CompliancePollerFailed) =>
    /\ pc = "fail_json"
    /\ called \cap {"commit_device_configuration", "get_task_tree"} = {}

\* the compliance poller timed out with sync_device_config still to come
C28_Witness ==
  /\ want.sync_device_config_params /\ CompliancePollerFailed
  /\ response.kind = "status" /\ ~response.isError /\ elapsed > Timeout
  /\ pc = "fail_json"

\* the sync poller ended with its mixed or its all-failed message
SyncEndedMixedOrFailed ==
  /\ outcome["sync_device_config"] = "FAILED"
  /\ result.msg.kind \in {"sync_mixed", "sync_failed"}

\* C29: when the sync poller ends with a mixed or an all-failed outcome, the
\* success set and the failed set of that poll are disjoint and together
\* are the whole target set: every target device has reported exactly one
\* result.
C29_TerminalSetsPartitionTargets ==
  SyncEndedMixedOrFailed =>
    /\ success_devices \cap failed_devices = {}
    /\ success_devices \cup failed_devices = Targets

\* C30: once update_result has been called, the 'failed' key of the result
\* is True exactly if the 'status' of the result is 'failed'.
C30_FailedKeyFollowsStatus ==
  result.status # "" => (result.failed <=> result.status = "failed")

=============================================================================
